---- MODULE Spec2Model ----
(***************************************************************************)
(* Expense Tracking API (src/main.py): two JSON documents, data/expenses   *)
(* .json (a list of expense records) and data/income.json (one income      *)
(* record), read whole and rewritten whole by every request handler.       *)
(*                                                                         *)
(* Strings whose characters the code inspects (dates, months, ids) are     *)
(* sequences of one-character strings, compared as Python compares str:    *)
(* code point by code point.  Strings the code only stores and compares    *)
(* for equality (category, description) are plain strings.  Amounts are    *)
(* finite numbers on which float arithmetic is exact (small integers).     *)
(***************************************************************************)
EXTENDS Integers, Sequences, FiniteSets, TLC

VARIABLES
    expensesFile,   \* parsed content of data/expenses.json
    incomeFile,     \* parsed content of data/income.json
    now,            \* the server clock, [year, month]
    issued,         \* the ids the create handler has returned so far, in order
    deleted,        \* ids deleted with success since the last create (history)
    ticks,          \* how many times the clock has advanced (bounded)
    resp,           \* the last request handled and its response
    pc,             \* per worker: position inside a handler (concurrent handling)
    req,            \* per worker: the request being handled
    snap,           \* per worker: the list load_expenses returned
    saw,            \* per worker: the other worker's position when this one loaded
    wres,           \* per worker: the response, once the handler has returned
    order,          \* workers in the order their save_expenses completed
    base            \* the stored collection before the concurrent requests

vars == <<expensesFile, incomeFile, now, issued, deleted, ticks, resp,
          pc, req, snap, saw, wres, order, base>>

raceVars == <<pc, req, snap, saw, wres, order, base>>

-----------------------------------------------------------------------------
(* Bounds of the model *)

MaxIds == 2
MaxTicks == 1

-----------------------------------------------------------------------------
(* Strings as character sequences *)

Ord(c) ==
    CASE c = "-" -> 45
      [] c = "0" -> 48 [] c = "1" -> 49 [] c = "2" -> 50 [] c = "3" -> 51
      [] c = "4" -> 52 [] c = "5" -> 53 [] c = "6" -> 54 [] c = "7" -> 55
      [] c = "8" -> 56 [] c = "9" -> 57
      [] c = "u" -> 117

DigitChar(d) ==
    CASE d = 0 -> "0" [] d = 1 -> "1" [] d = 2 -> "2" [] d = 3 -> "3"
      [] d = 4 -> "4" [] d = 5 -> "5" [] d = 6 -> "6" [] d = 7 -> "7"
      [] d = 8 -> "8" [] d = 9 -> "9"

RECURSIVE Digits(_)
Digits(n) == IF n < 10 THEN <<DigitChar(n)>>
             ELSE Append(Digits(n \div 10), DigitChar(n % 10))

RECURSIVE ZeroPad(_, _)
ZeroPad(s, w) == IF Len(s) >= w THEN s ELSE ZeroPad(<<"0">> \o s, w)

\* Python str <
RECURSIVE StrLess(_, _)
StrLess(a, b) ==
    IF a = <<>> THEN b # <<>>
    ELSE IF b = <<>> THEN FALSE
    ELSE IF Head(a) = Head(b) THEN StrLess(Tail(a), Tail(b))
    ELSE Ord(Head(a)) < Ord(Head(b))

\* Python str >
StrGreater(a, b) == StrLess(b, a)

\* Python str.startswith
StartsWith(s, p) == Len(p) <= Len(s) /\ SubSeq(s, 1, Len(p)) = p

\* datetime.now().strftime("%Y-%m")
strftime(t) == ZeroPad(Digits(t.year), 4) \o <<"-">> \o ZeroPad(Digits(t.month), 2)

\* Optional[str]: None, or a string
None == <<>>
Some(s) == <<s>>
IsNone(o) == o = <<>>
\* Python truthiness of an Optional[str]: None and "" are falsy
Truthy(o) == o # <<>> /\ o[1] # <<>>

-----------------------------------------------------------------------------
(* Input domains *)

StartClock == [year |-> 2024, month |-> 12]

Dec15 == <<"2","0","2","4","-","1","2","-","1","5">>
Jan02 == <<"2","0","2","5","-","0","1","-","0","2">>
Jan2Unpadded == <<"2","0","2","5","-","1","-","2">>

Amounts == {200, 500}
IncomeAmounts == {700, 1500}
Dates == {Dec15, Jan02, Jan2Unpadded}
Fields == {"amount", "category", "date", "description"}

\* request bodies of POST /expenses that differ in amount and date
ExpenseCreate ==
    [amount : Amounts, category : {"Food"}, date : Dates, description : {"lunch"}]

\* request bodies of POST /expenses that differ in every field
ExpenseCreateAllFields ==
    {[amount |-> 200, category |-> "Food", date |-> Dec15, description |-> "lunch"],
     [amount |-> 500, category |-> "Rent", date |-> Jan2Unpadded, description |-> "misc"]}

\* request bodies of PUT /expenses/{id}: the fields that were set, with their values
Payloads(values, fields) ==
    UNION {{[k \in F |-> v[k]] : v \in values} : F \in SUBSET fields}

ExpenseUpdate == Payloads({[amount |-> 500, date |-> Jan02]}, {"amount", "date"})
ExpenseUpdateAllFields ==
    Payloads({[amount |-> 500, category |-> "Rent", date |-> Jan02,
               description |-> "misc"]}, Fields)

\* query parameters start_date / end_date
StartDates == {None, Some(<<>>), Some(Jan02)}
EndDates == {None, Some(<<>>), Some(Jan02)}

Uuid(i) == <<"u">> \o Digits(i)
IdPool == {Uuid(i) : i \in 1..MaxIds}
\* path parameter expense_id: the ids generate_id can return, and one it never returns
RequestIds == IdPool \cup {Uuid(0)}

Range(s) == {s[i] : i \in 1..Len(s)}

-----------------------------------------------------------------------------
(* Store *)

\* load_expenses: the parsed list.  init_data_files creates the file and every
\* save writes a whole JSON document, so the file is there and parses.
load_expenses(content) == content

\* save_expenses opening the file in append mode: records already there are kept
save_expenses_append(content, expenses) ==
    content \o SelectSeq(expenses, LAMBDA e : e \notin Range(content))

\* save_expenses: the document is overwritten with the whole list
save_expenses(content, expenses) == expenses

\* load_income: the parsed record
load_income(content) == content

\* save_income: the document is overwritten with the whole record
save_income(content, income) == income

\* init_data_files, on a data directory that holds neither file
InitExpensesFile == <<>>
InitIncomeFile(t) == [amount |-> 0, month |-> strftime(t)]

\* generate_id: str(uuid.uuid4()), a string no earlier call returned.  Ids are only
\* ever compared for equality, so which unused string it is makes no difference.
generate_id(earlier) == Uuid(Len(earlier) + 1)

-----------------------------------------------------------------------------
(* Handlers, as functions of what they load and are passed *)

\* dict.update
DictUpdate(d, u) ==
    [k \in DOMAIN d \cup DOMAIN u |-> IF k \in DOMAIN u THEN u[k] ELSE d[k]]

\* for i, expense in enumerate(expenses): if expense["id"] == expense_id: ...
\* the index (from 1) of the first record the loop stops at, 0 when it runs out
RECURSIVE FirstMatchFrom(_, _, _)
FirstMatchFrom(expenses, expense_id, i) ==
    IF i > Len(expenses) THEN 0
    ELSE IF expenses[i].id = expense_id THEN i
    ELSE FirstMatchFrom(expenses, expense_id, i + 1)

FirstMatch(expenses, expense_id) == FirstMatchFrom(expenses, expense_id, 1)

\* del expenses[i]
DelAt(expenses, i) ==
    SubSeq(expenses, 1, i - 1) \o SubSeq(expenses, i + 1, Len(expenses))

NotFound == [status |-> 404, detail |-> "Expense not found"]

\* create_expense numbering the record by the length of the list it loaded
create_expense_count_id(expenses, expense, new_id) ==
    LET new_expense == DictUpdate(expense, [id |-> Uuid(Len(expenses) + 1)])
    IN  [status |-> 200, saved |-> TRUE,
         expenses |-> Append(expenses, new_expense),
         body |-> new_expense]

\* create_expense with expenses.insert(0, new_expense)
create_expense_prepend(expenses, expense, new_id) ==
    LET new_expense == DictUpdate(expense, [id |-> new_id])
    IN  [status |-> 200, saved |-> TRUE,
         expenses |-> <<new_expense>> \o expenses,
         body |-> new_expense]

\* POST /expenses
create_expense(expenses, expense, new_id) ==
    LET new_expense == DictUpdate(expense, [id |-> new_id])
    IN  [status |-> 200, saved |-> TRUE,
         expenses |-> Append(expenses, new_expense),
         body |-> new_expense]

\* update_expense falling through to the record the loop ended on
update_expense_leftover(expenses, expense_id, update_data) ==
    LET m == FirstMatch(expenses, expense_id)
        i == IF m # 0 THEN m ELSE Len(expenses)
    IN  IF i # 0
        THEN LET updated == DictUpdate(expenses[i], update_data)
             IN  [status |-> 200, saved |-> TRUE,
                  expenses |-> [expenses EXCEPT ![i] = updated],
                  body |-> updated]
        ELSE [status |-> 404, saved |-> FALSE, expenses |-> expenses,
              body |-> NotFound]

\* update_expense updating every record once one matches
update_expense_all(expenses, expense_id, update_data) ==
    LET i == FirstMatch(expenses, expense_id)
    IN  IF i # 0
        THEN LET updated == DictUpdate(expenses[i], update_data)
             IN  [status |-> 200, saved |-> TRUE,
                  expenses |-> [j \in 1..Len(expenses) |->
                                   DictUpdate(expenses[j], update_data)],
                  body |-> updated]
        ELSE [status |-> 404, saved |-> FALSE, expenses |-> expenses,
              body |-> NotFound]

\* PUT /expenses/{expense_id}
update_expense(expenses, expense_id, update_data) ==
    LET i == FirstMatch(expenses, expense_id)
    IN  IF i # 0
        THEN LET updated == DictUpdate(expenses[i], update_data)
             IN  [status |-> 200, saved |-> TRUE,
                  expenses |-> [expenses EXCEPT ![i] = updated],
                  body |-> updated]
        ELSE [status |-> 404, saved |-> FALSE, expenses |-> expenses,
              body |-> NotFound]

\* delete_expense with expenses.pop() in place of del expenses[i]
delete_expense_pop(expenses, expense_id) ==
    LET i == FirstMatch(expenses, expense_id)
    IN  IF i # 0
        THEN [status |-> 200, saved |-> TRUE,
              expenses |-> DelAt(expenses, Len(expenses)),
              body |-> [message |-> "Expense deleted successfully"]]
        ELSE [status |-> 404, saved |-> FALSE, expenses |-> expenses,
              body |-> NotFound]

\* DELETE /expenses/{expense_id}
delete_expense(expenses, expense_id) ==
    LET i == FirstMatch(expenses, expense_id)
    IN  IF i # 0
        THEN [status |-> 200, saved |-> TRUE,
              expenses |-> DelAt(expenses, i),
              body |-> [message |-> "Expense deleted successfully"]]
        ELSE [status |-> 404, saved |-> FALSE, expenses |-> expenses,
              body |-> NotFound]

\* the filtering loop with <= and >= in place of < and >
RECURSIVE FilterLoopStrict(_, _, _)
FilterLoopStrict(expenses, start_date, end_date) ==
    IF expenses = <<>> THEN <<>>
    ELSE LET expense == Head(expenses)
             expense_date == expense.date
             rest == FilterLoopStrict(Tail(expenses), start_date, end_date)
         IN  IF Truthy(start_date) /\ ~StrGreater(expense_date, start_date[1]) THEN rest
             ELSE IF Truthy(end_date) /\ ~StrLess(expense_date, end_date[1]) THEN rest
             ELSE <<expense>> \o rest

\* the filtering loop of get_expenses
RECURSIVE FilterLoop(_, _, _)
FilterLoop(expenses, start_date, end_date) ==
    IF expenses = <<>> THEN <<>>
    ELSE LET expense == Head(expenses)
             expense_date == expense.date
             rest == FilterLoop(Tail(expenses), start_date, end_date)
         IN  IF Truthy(start_date) /\ StrLess(expense_date, start_date[1]) THEN rest
             ELSE IF Truthy(end_date) /\ StrGreater(expense_date, end_date[1]) THEN rest
             ELSE <<expense>> \o rest

\* GET /expenses
get_expenses(expenses, start_date, end_date) ==
    IF Truthy(start_date) \/ Truthy(end_date)
    THEN FilterLoop(expenses, start_date, end_date)
    ELSE expenses

\* GET /income
get_income(income_data) == income_data

\* update_income without the line that stamps the month
update_income_keep_month(income_data, amount, t) ==
    [income_data EXCEPT !.amount = amount]

\* PUT /income
update_income(income_data, amount, t) ==
    [[income_data EXCEPT !.amount = amount] EXCEPT !.month = strftime(t)]

\* sum(expense["amount"] for expense in monthly_expenses)
RECURSIVE SumAmounts(_)
SumAmounts(es) == IF es = <<>> THEN 0 ELSE SumAmounts(SubSeq(es, 1, Len(es) - 1)) + es[Len(es)].amount

\* the suggestions with > in place of >= at both thresholds
InvestmentSuggestionsStrict(savings) ==
    IF savings > 0
    THEN IF savings > 1000
         THEN <<"Consider investing in a diversified index fund",
                "Look into high-yield savings accounts for emergency fund">>
         ELSE IF savings > 500
         THEN <<"Start building an emergency fund",
                "Consider low-risk investment options">>
         ELSE <<"Focus on building emergency savings first">>
    ELSE <<"Review your expenses to increase savings",
           "Consider budgeting tools to track spending">>

\* the investment suggestions of get_monthly_report
InvestmentSuggestions(savings) ==
    IF savings > 0
    THEN IF savings >= 1000
         THEN <<"Consider investing in a diversified index fund",
                "Look into high-yield savings accounts for emergency fund">>
         ELSE IF savings >= 500
         THEN <<"Start building an emergency fund",
                "Consider low-risk investment options">>
         ELSE <<"Focus on building emergency savings first">>
    ELSE <<"Review your expenses to increase savings",
           "Consider budgeting tools to track spending">>

\* the expense breakdown by category of get_monthly_report
ExpenseCategories(monthly_expenses) ==
    [c \in {e.category : e \in Range(monthly_expenses)} |->
        SumAmounts(SelectSeq(monthly_expenses, LAMBDA e : e.category = c))]

\* the month filter comparing the year alone
MonthlyExpensesByYear(expenses, current_month) ==
    SelectSeq(expenses, LAMBDA expense :
                  StartsWith(expense.date, SubSeq(current_month, 1, 4)))

\* [expense for expense in expenses if expense["date"].startswith(current_month)]
MonthlyExpenses(expenses, current_month) ==
    SelectSeq(expenses, LAMBDA expense : StartsWith(expense.date, current_month))

\* GET /report/monthly
get_monthly_report(expenses, income_data, t) ==
    LET current_month == strftime(t)
        monthly_expenses == MonthlyExpenses(expenses, current_month)
        total_expenses == SumAmounts(monthly_expenses)
        total_income == income_data.amount
        savings == total_income - total_expenses
    IN  [month |-> current_month,
         total_income |-> total_income,
         total_expenses |-> total_expenses,
         savings |-> savings,
         expense_categories |-> ExpenseCategories(monthly_expenses),
         investment_suggestions |-> InvestmentSuggestions(savings),
         expenses |-> monthly_expenses]

-----------------------------------------------------------------------------
(* One request at a time: each handler runs from its load to its return *)

Workers == {1, 2}

NoResp == [op |-> "none", args |-> <<>>, status |-> 0, body |-> <<>>]

RaceIdle ==
    /\ pc = [w \in Workers |-> "idle"]
    /\ req = [w \in Workers |-> NoResp]
    /\ snap = [w \in Workers |-> <<>>]
    /\ saw = [w \in Workers |-> "idle"]
    /\ wres = [w \in Workers |-> NoResp]
    /\ order = <<>>
    /\ base = <<>>

Init ==
    /\ expensesFile = InitExpensesFile
    /\ incomeFile = InitIncomeFile(StartClock)
    /\ now = StartClock
    /\ issued = <<>>
    /\ deleted = {}
    /\ ticks = 0
    /\ resp = NoResp
    /\ RaceIdle

CreateExpenseFrom(bodies) ==
    /\ Len(issued) < MaxIds
    /\ \E expense \in bodies :
          LET new_id == generate_id(issued)
              r == create_expense(load_expenses(expensesFile), expense, new_id)
          IN  /\ expensesFile' = save_expenses(expensesFile, r.expenses)
              /\ issued' = Append(issued, r.body.id)
              /\ deleted' = {}
              /\ resp' = [op |-> "create", args |-> expense,
                          status |-> r.status, body |-> r.body]
    /\ UNCHANGED <<incomeFile, now, ticks>>
    /\ UNCHANGED raceVars

UpdateExpenseFrom(ids, bodies) ==
    /\ \E expense_id \in ids :
       \E update_data \in bodies :
          LET r == update_expense(load_expenses(expensesFile),
                                  expense_id, update_data)
          IN  /\ expensesFile' = IF r.saved
                                 THEN save_expenses(expensesFile, r.expenses)
                                 ELSE expensesFile
              /\ resp' = [op |-> "update",
                          args |-> [expense_id |-> expense_id, update_data |-> update_data],
                          status |-> r.status, body |-> r.body]
    /\ UNCHANGED <<incomeFile, now, issued, deleted, ticks>>
    /\ UNCHANGED raceVars

DeleteExpense ==
    /\ \E expense_id \in RequestIds :
          LET r == delete_expense(load_expenses(expensesFile), expense_id)
          IN  /\ expensesFile' = IF r.saved
                                 THEN save_expenses(expensesFile, r.expenses)
                                 ELSE expensesFile
              /\ deleted' = IF r.saved THEN deleted \cup {expense_id} ELSE deleted
              /\ resp' = [op |-> "delete", args |-> [expense_id |-> expense_id],
                          status |-> r.status, body |-> r.body]
    /\ UNCHANGED <<incomeFile, now, issued, ticks>>
    /\ UNCHANGED raceVars

GetExpensesFrom(starts, ends) ==
    /\ \E start_date \in starts :
       \E end_date \in ends :
          resp' = [op |-> "list",
                   args |-> [start_date |-> start_date, end_date |-> end_date],
                   status |-> 200,
                   body |-> get_expenses(load_expenses(expensesFile),
                                         start_date, end_date)]
    /\ UNCHANGED <<expensesFile, incomeFile, now, issued, deleted, ticks>>
    /\ UNCHANGED raceVars

GetIncome ==
    /\ resp' = [op |-> "get_income", args |-> <<>>, status |-> 200,
                body |-> get_income(load_income(incomeFile))]
    /\ UNCHANGED <<expensesFile, incomeFile, now, issued, deleted, ticks>>
    /\ UNCHANGED raceVars

UpdateIncome ==
    /\ \E amount \in IncomeAmounts :
          LET income_data == update_income(load_income(incomeFile), amount, now)
          IN  /\ incomeFile' = save_income(incomeFile, income_data)
              /\ resp' = [op |-> "set_income", args |-> [amount |-> amount],
                          status |-> 200, body |-> income_data]
    /\ UNCHANGED <<expensesFile, now, issued, deleted, ticks>>
    /\ UNCHANGED raceVars

GetMonthlyReport ==
    /\ resp' = [op |-> "report", args |-> <<>>, status |-> 200,
                body |-> get_monthly_report(load_expenses(expensesFile),
                                            load_income(incomeFile), now)]
    /\ UNCHANGED <<expensesFile, incomeFile, now, issued, deleted, ticks>>
    /\ UNCHANGED raceVars

\* the server clock passes into the next calendar month
NextMonth(t) == IF t.month = 12 THEN [year |-> t.year + 1, month |-> 1]
                ELSE [year |-> t.year, month |-> t.month + 1]

Tick ==
    /\ ticks < MaxTicks
    /\ now' = NextMonth(now)
    /\ ticks' = ticks + 1
    /\ UNCHANGED <<expensesFile, incomeFile, issued, deleted, resp>>
    /\ UNCHANGED raceVars

CreateExpense == CreateExpenseFrom(ExpenseCreate)
UpdateExpense == UpdateExpenseFrom(RequestIds, ExpenseUpdate)
GetExpenses == GetExpensesFrom(StartDates, EndDates)

Next ==
    \/ CreateExpense
    \/ UpdateExpense
    \/ DeleteExpense
    \/ GetExpenses
    \/ GetIncome
    \/ UpdateIncome
    \/ GetMonthlyReport
    \/ Tick

Spec == Init /\ [][Next]_vars

(* Creating, updating and listing alone, on records that differ in every field *)

CreateExpenseAllFields == CreateExpenseFrom(ExpenseCreateAllFields)
UpdateExpenseAllFields == UpdateExpenseFrom(IdPool, ExpenseUpdateAllFields)
GetExpensesUnfiltered == GetExpensesFrom({None}, {None})

NextFields ==
    \/ CreateExpenseAllFields
    \/ UpdateExpenseAllFields
    \/ GetExpensesUnfiltered

SpecFields == Init /\ [][NextFields]_vars

(* Two requests handled at once.  No handler holds a lock between its
   load_expenses and its save_expenses, so when two server processes share the
   data directory the load of one can fall between the load and the save of
   the other.  Loading and saving each move the whole document in one step. *)

Other(w) == CHOOSE v \in Workers : v # w

\* the stored collections the requests start from
RaceBases ==
    {<<>>} \cup {<<DictUpdate(e, [id |-> Uuid(1)])>> : e \in ExpenseCreate}

\* the mutating expense requests
RaceRequests ==
    [op : {"create"}, args : ExpenseCreate]
    \cup [op : {"update"},
          args : [expense_id : RequestIds, update_data : ExpenseUpdate]]
    \cup [op : {"delete"}, args : [expense_id : RequestIds]]

\* the handler of a request, from the list it loaded
Handle(request, expenses, new_id) ==
    CASE request.op = "create" -> create_expense(expenses, request.args, new_id)
      [] request.op = "update" ->
            update_expense(expenses, request.args.expense_id, request.args.update_data)
      [] request.op = "delete" -> delete_expense(expenses, request.args.expense_id)

RaceInit ==
    /\ expensesFile \in RaceBases
    /\ base = expensesFile
    /\ issued = [i \in 1..Len(expensesFile) |-> expensesFile[i].id]
    /\ incomeFile = InitIncomeFile(StartClock)
    /\ now = StartClock
    /\ deleted = {}
    /\ ticks = 0
    /\ resp = NoResp
    /\ pc = [w \in Workers |-> "idle"]
    /\ req = [w \in Workers |-> NoResp]
    /\ snap = [w \in Workers |-> <<>>]
    /\ saw = [w \in Workers |-> "idle"]
    /\ wres = [w \in Workers |-> NoResp]
    /\ order = <<>>

\* creates that have loaded and not yet generated their id
PendingCreates == {w \in Workers : pc[w] = "loaded" /\ req[w].op = "create"}

\* expenses = load_expenses()
HandlerLoads ==
    \E w \in Workers :
       /\ pc[w] = "idle"
       /\ \E request \in RaceRequests :
             /\ request.op = "create" =>
                   Len(issued) + Cardinality(PendingCreates) < MaxIds
             /\ req' = [req EXCEPT ![w] = request]
       /\ snap' = [snap EXCEPT ![w] = load_expenses(expensesFile)]
       /\ saw' = [saw EXCEPT ![w] = pc[Other(w)]]
       /\ pc' = [pc EXCEPT ![w] = "loaded"]
       /\ UNCHANGED <<expensesFile, incomeFile, now, issued, deleted, ticks, resp,
                      wres, order, base>>

\* the rest of the handler: modify the loaded list, save_expenses(expenses), return
HandlerSaves ==
    \E w \in Workers :
       /\ pc[w] = "loaded"
       /\ LET r == Handle(req[w], snap[w], generate_id(issued))
          IN  /\ expensesFile' = IF r.saved
                                 THEN save_expenses(expensesFile, r.expenses)
                                 ELSE expensesFile
              /\ issued' = IF req[w].op = "create" THEN Append(issued, r.body.id)
                           ELSE issued
              /\ order' = IF r.saved THEN Append(order, w) ELSE order
              /\ wres' = [wres EXCEPT ![w] = [op |-> req[w].op, args |-> req[w].args,
                                              status |-> r.status, body |-> r.body]]
       /\ pc' = [pc EXCEPT ![w] = "done"]
       /\ UNCHANGED <<incomeFile, now, deleted, ticks, resp, req, snap, saw, base>>

RaceNext ==
    \/ HandlerLoads
    \/ HandlerSaves

SpecRace == RaceInit /\ [][RaceNext]_vars

-----------------------------------------------------------------------------
(* Vocabulary of the properties, independent of the handlers' code *)

\* the step is a request of kind op, handled from its load to its return
Handled(op) == now' = now /\ resp'.op = op

StoredIds(expenses) == {expenses[i].id : i \in 1..Len(expenses)}

\* the position of the first record of the sequence with the id
FirstIndexOf(expenses, id) ==
    CHOOSE i \in 1..Len(expenses) :
        /\ expenses[i].id = id
        /\ \A j \in 1..(i - 1) : expenses[j].id # id

\* the sequence without its element at position i
Without(expenses, i) ==
    [j \in 1..(Len(expenses) - 1) |-> IF j < i THEN expenses[j] ELSE expenses[j + 1]]

\* a <= b in the lexical order of strings: a is a prefix of b, or at the first
\* position where they differ a holds the smaller character
LexLeq(a, b) ==
    \/ /\ Len(a) <= Len(b)
       /\ \A k \in 1..Len(a) : a[k] = b[k]
    \/ \E k \in 1..Len(a) :
          /\ k <= Len(b)
          /\ \A j \in 1..(k - 1) : a[j] = b[j]
          /\ Ord(a[k]) < Ord(b[k])

HasPrefix(s, p) == Len(p) <= Len(s) /\ \A k \in 1..Len(p) : s[k] = p[k]

\* the sum of the amounts at a set of positions
RECURSIVE SumAt(_, _)
SumAt(expenses, I) ==
    IF I = {} THEN 0
    ELSE LET i == CHOOSE x \in I : TRUE
         IN  expenses[i].amount + SumAt(expenses, I \ {i})

-----------------------------------------------------------------------------
(* C1: every stored expense has a non-empty id, no two stored expenses share
   an id, and the id each create returns differs from the id every earlier
   create returned, whether or not that record has been deleted since. *)
C1_UniqueIds ==
    /\ \A i \in 1..Len(expensesFile) : expensesFile[i].id # <<>>
    /\ \A i, j \in 1..Len(expensesFile) :
          i # j => expensesFile[i].id # expensesFile[j].id
    /\ \A i, j \in 1..Len(issued) : i # j => issued[i] # issued[j]
    /\ StoredIds(expensesFile) \subseteq Range(issued)
    /\ resp.op = "create" => /\ resp.body.id = issued[Len(issued)]
                             /\ resp.body.id # <<>>

\* a create that follows the deletion of an earlier record
C1_Witness ==
    /\ resp.op = "create"
    /\ Len(issued) = 2
    /\ Len(expensesFile) = 1

(* C2: listing without a date filter right after a create that returned E
   gives the collection as it was before the create with E appended, and E
   occurs in it exactly once. *)
C2_CreateThenList ==
    [][Handled("create") =>
         LET E == resp'.body
             L == get_expenses(load_expenses(expensesFile'), None, None)
         IN  /\ L = Append(expensesFile, E)
             /\ Cardinality({i \in 1..Len(L) : L[i] = E}) = 1]_vars

\* a create into a collection that already holds a record with the same field values
C2_Witness ==
    /\ resp.op = "create"
    /\ Len(expensesFile) = 2
    /\ \A f \in Fields : expensesFile[1][f] = expensesFile[2][f]

(* C3: an update whose id matches no stored record answers 404 and leaves
   the stored collection as it was. *)
C3_UpdateNotFound ==
    [][(Handled("update") /\ resp'.args.expense_id \notin StoredIds(expensesFile)) =>
         /\ resp'.status = 404
         /\ expensesFile' = expensesFile]_vars

\* a 404 from an update against a collection that holds records
C3_Witness ==
    /\ resp.op = "update"
    /\ resp.status = 404
    /\ Len(expensesFile) = 2
    /\ DOMAIN resp.args.update_data # {}

(* C4: an update whose id matches a stored record leaves that record with
   the supplied value in every supplied field and its prior value in every
   other field, id included; the other records, the record's position and
   the length of the collection do not change. *)
C4_PartialUpdate ==
    [][(Handled("update") /\ resp'.args.expense_id \in StoredIds(expensesFile)) =>
         LET i == FirstIndexOf(expensesFile, resp'.args.expense_id)
             update_data == resp'.args.update_data
         IN  /\ resp'.status = 200
             /\ Len(expensesFile') = Len(expensesFile)
             /\ \A j \in 1..Len(expensesFile) : j # i => expensesFile'[j] = expensesFile[j]
             /\ DOMAIN expensesFile'[i] = Fields \cup {"id"}
             /\ \A f \in Fields \cup {"id"} :
                   expensesFile'[i][f] = IF f \in DOMAIN update_data
                                         THEN update_data[f]
                                         ELSE expensesFile[i][f]]_vars

\* an update of one field of the first of two records, whose other fields hold
\* values the request body does not carry
C4_Witness ==
    /\ resp.op = "update"
    /\ resp.status = 200
    /\ DOMAIN resp.args.update_data = {"category"}
    /\ Len(expensesFile) = 2
    /\ expensesFile[1].id = resp.args.expense_id
    /\ expensesFile[1] = [id |-> Uuid(1), amount |-> 200, category |-> "Rent",
                          date |-> Dec15, description |-> "lunch"]
    /\ expensesFile[2].category = "Food"

(* C5: a delete whose id is stored removes the first record with that id and
   nothing else, keeping the order of the rest; a further delete of the same
   id, with no create in between, answers 404 and leaves the collection as
   it was. *)
C5_Delete ==
    [][Handled("delete") =>
         LET id == resp'.args.expense_id
         IN  /\ id \in StoredIds(expensesFile) =>
                   /\ resp'.status = 200
                   /\ expensesFile' = Without(expensesFile, FirstIndexOf(expensesFile, id))
             /\ id \in deleted =>
                   /\ resp'.status = 404
                   /\ expensesFile' = expensesFile]_vars

\* the second delete of an id, against a collection that still holds a record
C5_Witness ==
    /\ resp.op = "delete"
    /\ resp.status = 404
    /\ resp.args.expense_id \in deleted
    /\ Len(expensesFile) = 1
(* C6 as stated: list returns, in stored order, the stored records whose
   date is lexically >= start_date when start_date is given and <= end_date
   when end_date is given, and every stored record when neither is given. *)
C6_ListGivenBounds ==
    [][Handled("list") =>
         LET start_date == resp'.args.start_date
             end_date == resp'.args.end_date
             InRange(e) == /\ ~IsNone(start_date) => LexLeq(start_date[1], e.date)
                           /\ ~IsNone(end_date) => LexLeq(e.date, end_date[1])
         IN  resp'.body = SelectSeq(expensesFile, InRange)]_vars

(* C6 amended: list returns, in stored order, the stored records whose date
   is lexically >= start_date when start_date is given and not the empty
   string, and <= end_date when end_date is given and not the empty string;
   a bound that is absent or empty does not filter, and with both absent or
   empty every stored record is returned. *)
C6_ListNonEmptyBounds ==
    [][Handled("list") =>
         LET start_date == resp'.args.start_date
             end_date == resp'.args.end_date
             Filters(b) == ~IsNone(b) /\ b[1] # <<>>
             InRange(e) == /\ Filters(start_date) => LexLeq(start_date[1], e.date)
                           /\ Filters(end_date) => LexLeq(e.date, end_date[1])
         IN  /\ resp'.status = 200
             /\ resp'.body = SelectSeq(expensesFile, InRange)
             /\ (~Filters(start_date) /\ ~Filters(end_date)) => resp'.body = expensesFile]_vars

\* a list between two bounds that keeps the record dated on both bounds and
\* drops the record whose unpadded date sorts above the upper bound
C6_Witness ==
    /\ resp.op = "list"
    /\ resp.args = [start_date |-> Some(Jan02), end_date |-> Some(Jan02)]
    /\ Len(expensesFile) = 2
    /\ expensesFile[1].date = Jan2Unpadded
    /\ expensesFile[2].date = Jan02
    /\ resp.body = <<expensesFile[2]>>

(* C7: the monthly report's total_expenses is the sum of the amounts of the
   stored expenses whose date starts with the current YYYY-MM (0 when there
   are none), its total_income is the stored income amount whatever month
   the income record carries, and its savings is total_income minus
   total_expenses. *)
C7_ReportTotals ==
    [][Handled("report") =>
         LET current == {i \in 1..Len(expensesFile) :
                            HasPrefix(expensesFile[i].date, strftime(now))}
         IN  /\ resp'.body.month = strftime(now)
             /\ Len(resp'.body.month) = 7
             /\ resp'.body.total_expenses = SumAt(expensesFile, current)
             /\ current = {} => resp'.body.total_expenses = 0
             /\ resp'.body.total_income = incomeFile.amount
             /\ resp'.body.savings =
                   resp'.body.total_income - resp'.body.total_expenses]_vars

\* a report over one expense of the current month and one of another month, with
\* an income record stamped in an earlier month
C7_Witness ==
    /\ resp.op = "report"
    /\ Len(expensesFile) = 2
    /\ Len(resp.body.expenses) = 1
    /\ resp.body.total_expenses = 500
    /\ resp.body.total_income = 1500
    /\ incomeFile.month # resp.body.month

(* C8: the report's investment_suggestions is the row of the decision table
   that its savings selects, and exactly one row applies: savings >= 1000,
   500 <= savings < 1000, 0 < savings < 500, savings <= 0. *)
SuggestionTable(savings) ==
    <<[applies |-> savings >= 1000,
       advice |-> <<"Consider investing in a diversified index fund",
                    "Look into high-yield savings accounts for emergency fund">>],
      [applies |-> 500 <= savings /\ savings < 1000,
       advice |-> <<"Start building an emergency fund",
                    "Consider low-risk investment options">>],
      [applies |-> 0 < savings /\ savings < 500,
       advice |-> <<"Focus on building emergency savings first">>],
      [applies |-> savings <= 0,
       advice |-> <<"Review your expenses to increase savings",
                    "Consider budgeting tools to track spending">>]>>

C8_Suggestions ==
    [][Handled("report") =>
         LET table == SuggestionTable(resp'.body.savings)
             rows == {k \in 1..Len(table) : table[k].applies}
         IN  /\ Cardinality(rows) = 1
             /\ \A k \in rows :
                   resp'.body.investment_suggestions = table[k].advice]_vars

\* a report whose savings is exactly 1000
C8_Witness ==
    /\ resp.op = "report"
    /\ resp.body.savings = 1000
    /\ Len(resp.body.investment_suggestions) = 2

(* C9: a get right after set(a) returns the income record with amount a and
   the month that was current when the set was handled, whatever the record
   held before; the set leaves the expense collection as it was. *)
C9_SetThenGet ==
    [][/\ Handled("set_income") =>
             /\ get_income(load_income(incomeFile')) =
                   [amount |-> resp'.args.amount, month |-> strftime(now)]
             /\ resp'.body = [amount |-> resp'.args.amount, month |-> strftime(now)]
             /\ expensesFile' = expensesFile
       /\ (resp.op = "set_income" /\ Handled("get_income")) =>
             resp'.body = [amount |-> resp.args.amount, month |-> resp.body.month]]_vars

\* a get answering a set that replaced an income record stamped in an earlier
\* month, with expenses stored
C9_Witness ==
    /\ resp.op = "get_income"
    /\ resp.body.amount = 1500
    /\ resp.body.month # strftime(StartClock)
    /\ resp.body.month = strftime(now)
    /\ Len(expensesFile) = 1
(* C10: two mutating expense requests handled at once can lose an update.
   When both have answered 200, the stored collection is what the request
   that saved last makes of the list it loaded: if it loaded before the other
   saved, that is its own effect on the collection the two started from, and
   the effect of the other request is gone; only if it loaded after the other
   saved does the collection hold both effects. *)
Merged(record, update_data) ==
    [f \in Fields \cup {"id"} |->
        IF f \in DOMAIN update_data THEN update_data[f] ELSE record[f]]

\* what the request worker w answered 200 to does to a collection
EffectOf(w, expenses) ==
    LET args == wres[w].args
    IN  CASE wres[w].op = "create" -> Append(expenses, wres[w].body)
          [] wres[w].op = "update" ->
                IF args.expense_id \in StoredIds(expenses)
                THEN LET i == FirstIndexOf(expenses, args.expense_id)
                     IN  [expenses EXCEPT ![i] = Merged(expenses[i], args.update_data)]
                ELSE expenses
          [] wres[w].op = "delete" ->
                IF args.expense_id \in StoredIds(expenses)
                THEN Without(expenses, FirstIndexOf(expenses, args.expense_id))
                ELSE expenses

BothSucceeded == \A w \in Workers : pc[w] = "done" /\ wres[w].status = 200

C10_LastWriterWins ==
    BothSucceeded =>
        LET first == order[1]
            last == order[2]
        IN  IF saw[last] = "done"
            THEN expensesFile = EffectOf(last, EffectOf(first, base))
            ELSE expensesFile = EffectOf(last, base)

\* both requests answered 200, and the stored collection is neither of the two
\* collections that handling them one after the other would have left: it lacks
\* the effect of the request that saved first
C10_LostUpdate ==
    /\ BothSucceeded
    /\ saw[order[2]] # "done"
    /\ EffectOf(order[1], base) # base
    /\ expensesFile = EffectOf(order[2], base)
    /\ expensesFile # EffectOf(order[2], EffectOf(order[1], base))
    /\ expensesFile # EffectOf(order[1], EffectOf(order[2], base))

====
